---- MODULE Spec2Model ----
(***************************************************************************)
(* Model of utils.py: the TCGA helpers get_paired_tcga_exprs,              *)
(* format_tcga_rnaseq and load_transcriptomics.                            *)
(*                                                                         *)
(* A DataFrame is a record [columns, index, rows]: the set of column       *)
(* names, the sequence of row labels and the sequence of rows, a row being *)
(* a function from the column names to values.  Strings the code inspects  *)
(* character by character (sample ids, directory entries, barcodes) are    *)
(* sequences of one-character strings.                                     *)
(***************************************************************************)
EXTENDS Integers, Sequences, FiniteSets, TLC

VARIABLES
    pc,                \* which call has been made
    tcga_tpm,          \* get_paired_tcga_exprs: the table passed
    paired,            \* get_paired_tcga_exprs: the result
    again,             \* the result of the filter applied to its own result
    retained,          \* the result of the filter applied to the rows it kept
    gdc_sample_sheet,  \* format_tcga_rnaseq: the sample sheet read
    fs,                \* format_tcga_rnaseq: the files under root_dir
    workflow_type,     \* format_tcga_rnaseq: the column asked for
    tcga_df,           \* format_tcga_rnaseq: the result
    source,            \* load_transcriptomics: the source argument
    listing,           \* load_transcriptomics: listdir(getcwd()) at the call
    loaded             \* load_transcriptomics: the result

pairedVars == <<tcga_tpm, paired, again, retained>>
formatVars == <<gdc_sample_sheet, fs, workflow_type, tcga_df>>
loadVars == <<source, listing, loaded>>
vars == <<pc, pairedVars, formatVars, loadVars>>

\* ------------------------------------------------------------------ bounds
MaxRows == 3
MaxRowsMissing == 1
MaxFiles == 3
MaxFilesLoad == 1
MaxEntries == 2

\* ----------------------------------------------------------------- strings
Contains(s, pat) ==
    \E i \in 1..(Len(s) - Len(pat) + 1) : SubSeq(s, i, i + Len(pat) - 1) = pat

Str01A == <<"-", "0", "1", "A">>
Str01B == <<"-", "0", "1", "B">>
Str01C == <<"-", "0", "1", "C">>

\* -------------------------------------------------------------- DataFrames
NoFrame == [columns |-> {}, index |-> <<>>, rows |-> <<>>]

RECURSIVE Ascending(_)
Ascending(S) ==
    IF S = {} THEN <<>>
    ELSE LET m == CHOOSE x \in S : \A y \in S : x <= y
         IN <<m>> \o Ascending(S \ {m})

\* df[mask]: the rows at the positions in keep, in their order, labels kept.
BoolIndex(df, keep) ==
    LET pos == Ascending(keep)
    IN [columns |-> df.columns,
        index   |-> [k \in 1..Len(pos) |-> df.index[pos[k]]],
        rows    |-> [k \in 1..Len(pos) |-> df.rows[pos[k]]]]

\* df[[c1, ..., cn]]: the projection to the columns cols.
SelectColumns(df, cols) ==
    [columns |-> cols,
     index   |-> df.index,
     rows    |-> [k \in 1..Len(df.rows) |-> [c \in cols |-> df.rows[k][c]]]]

\* df.drop_duplicates(): the first of every run of equal rows is kept.
drop_duplicates(df) ==
    BoolIndex(df, {i \in 1..Len(df.rows) :
                     \A j \in 1..(i - 1) : df.rows[j] # df.rows[i]})

\* df.groupby('subject_id').filter(lambda x: any(x['tumor_or_normal'] == flag))
GroupHasFlag(df, subject, flag) ==
    \E j \in 1..Len(df.rows) :
        /\ df.rows[j]["subject_id"] = subject
        /\ df.rows[j]["tumor_or_normal"] = flag

GroupFilterAny(df, flag) ==
    BoolIndex(df, {i \in 1..Len(df.rows) :
                     GroupHasFlag(df, df.rows[i]["subject_id"], flag)})

\* --------------------------------------------------- get_paired_tcga_exprs
keep_columns ==
    {"Primary Tumor", "Solid Tissue Normal",
     "Primary Blood Derived Cancer - Peripheral Blood"}

MutAllowAll(df) == df

IsinKeepColumns(df) ==
    BoolIndex(df, {i \in 1..Len(df.rows) :
                     df.rows[i]["land_sample_type"] \in keep_columns})

FfpePattern(s) == Contains(s, Str01B) \/ Contains(s, Str01C)

MutDropFfpeOnlyB(df) ==
    BoolIndex(df, {i \in 1..Len(df.rows) :
                     ~Contains(df.rows[i]["sample_id"], Str01B)})

DropFfpe(df) ==
    BoolIndex(df, {i \in 1..Len(df.rows) :
                     ~FfpePattern(df.rows[i]["sample_id"])})

RelevantColumns ==
    {"gene_name", "tpm", "subject_id", "tumor_or_normal", "tumor_type"}

RequiredColumns == RelevantColumns \cup {"land_sample_type", "sample_id"}

MutNoProjection(df) == df

SubsetRelevant(df) == SelectColumns(df, RelevantColumns)

MutTumorOnly(df) == drop_duplicates(GroupFilterAny(df, "Tumor"))

\* The pairing predicates evaluated on the whole frame instead of per subject.
MutUngrouped(df) ==
    LET flags == {df.rows[i]["tumor_or_normal"] : i \in 1..Len(df.rows)}
    IN IF {"Tumor", "Normal"} \subseteq flags
       THEN drop_duplicates(df)
       ELSE BoolIndex(df, {})

KeepPaired(df) ==
    LET tumor_paired == GroupFilterAny(df, "Tumor")
    IN drop_duplicates(GroupFilterAny(tumor_paired, "Normal"))

\* An exception of class kind about the names in what, or a returned frame.
Raise(kind, what) == [kind |-> kind, what |-> what, df |-> NoFrame]

Return(df) == [kind |-> "ok", what |-> {}, df |-> df]

NotCalled == [kind |-> "none", what |-> {}, df |-> NoFrame]

MutErrorsAsEmpty(df) == Return(NoFrame)

ColumnError(df) ==
    IF "land_sample_type" \notin df.columns
    THEN Raise("AttributeError", {"land_sample_type"})
    ELSE IF "sample_id" \notin df.columns
    THEN Raise("AttributeError", {"sample_id"})
    ELSE Raise("KeyError", RelevantColumns \ df.columns)

get_paired_tcga_exprs(df) ==
    IF ~(RequiredColumns \subseteq df.columns)
    THEN ColumnError(df)
    ELSE Return(KeepPaired(SubsetRelevant(DropFfpe(IsinKeepColumns(df)))))

\* ------------------------------------------------------ format_tcga_rnaseq
NaN == "NaN"

\* pjoin(root_dir, row["File ID"], row["File Name"])
pjoin(root_dir, row) == <<root_dir, row["File ID"], row["File Name"]>>

\* gdc_sample_sheet[gdc_sample_sheet['Data Category'] == 'Transcriptome Profiling']
gdc_sample_sheet_rnaseq(sheet) ==
    SelectSeq(sheet, LAMBDA row : row["Data Category"] = "Transcriptome Profiling")

\* DataFrame.dropna(): the rows with a missing value in any column are dropped.
dropna(df) ==
    BoolIndex(df, {i \in 1..Len(df.rows) :
                     \A c \in df.columns : df.rows[i][c] # NaN})

\* df.set_index(["gene_id", "gene_name"])[workflow_type].to_dict(): a later row
\* with the key of an earlier one replaces its value.
to_dict(df, wf) ==
    LET key(i) == <<df.rows[i]["gene_id"], df.rows[i]["gene_name"]>>
        keys == {key(i) : i \in 1..Len(df.rows)}
        last(k) == CHOOSE i \in 1..Len(df.rows) :
                      /\ key(i) = k
                      /\ \A j \in 1..Len(df.rows) : key(j) = k => j <= i
    IN [k \in keys |-> df.rows[last(k)][wf]]

\* records[sample_id] = mapping: a dict keeps the position of a key it has.
DictSet(records, sample_id, mapping) ==
    IF \E k \in 1..Len(records) : records[k][1] = sample_id
    THEN [k \in 1..Len(records) |->
            IF records[k][1] = sample_id THEN <<sample_id, mapping>>
            ELSE records[k]]
    ELSE Append(records, <<sample_id, mapping>>)

Missing == [exists |-> FALSE, df |-> NoFrame]

\* The loop as it was before the existence check was commented out: a missing
\* file is reported and skipped.
MutSkipMissingFile(files, wf, root_dir, row, acc) ==
    LET file_path == pjoin(root_dir, row)
        printed == [acc EXCEPT !.reads = Append(@, file_path)]
        file == files[file_path]
    IN IF ~file.exists
       THEN printed
       ELSE IF ~({"gene_id", "gene_name"} \subseteq file.df.columns)
       THEN [printed EXCEPT !.kind = "KeyError",
                            !.what = {"gene_id", "gene_name"} \ file.df.columns]
       ELSE IF wf \notin file.df.columns
       THEN [printed EXCEPT !.kind = "KeyError", !.what = {wf}]
       ELSE [printed EXCEPT !.records =
                DictSet(@, row["Sample ID"], to_dict(dropna(file.df), wf))]

\* One iteration of the loop over the sheet rows, on the accumulated
\* [kind, what, records, reads]: reads is the sequence of paths handed to
\* pd.read_csv so far.
LoopBody(files, wf, root_dir, row, acc) ==
    LET file_path == pjoin(root_dir, row)
        printed == [acc EXCEPT !.reads = Append(@, file_path)]
        file == files[file_path]
    IN IF ~file.exists
       THEN [printed EXCEPT !.kind = "FileNotFoundError", !.what = {file_path}]
       ELSE IF ~({"gene_id", "gene_name"} \subseteq file.df.columns)
       THEN [printed EXCEPT !.kind = "KeyError",
                            !.what = {"gene_id", "gene_name"} \ file.df.columns]
       ELSE IF wf \notin file.df.columns
       THEN [printed EXCEPT !.kind = "KeyError", !.what = {wf}]
       ELSE [printed EXCEPT !.records =
                DictSet(@, row["Sample ID"], to_dict(dropna(file.df), wf))]

\* The for loop: an exception raised in an iteration ends it.
RECURSIVE Iterrows(_, _, _, _, _)
Iterrows(files, wf, root_dir, rows, acc) ==
    IF rows = <<>> \/ acc.kind # "ok" THEN acc
    ELSE Iterrows(files, wf, root_dir, Tail(rows),
                  LoopBody(files, wf, root_dir, Head(rows), acc))

\* pd.DataFrame(records): one column per key of records, in the dict's order,
\* indexed by the union of the mappings' gene keys; index_names are the names
\* of the index levels, none for the tuples of a dict; a cell without a value
\* in its sample's mapping is NaN.
DataFrameOfRecords(records) ==
    LET index == UNION {DOMAIN records[k][2] : k \in 1..Len(records)}
    IN [columns     |-> [k \in 1..Len(records) |-> records[k][1]],
        index_names |-> IF records = <<>> THEN <<>> ELSE <<"None", "None">>,
        index       |-> index,
        cell        |-> [k \in 1..Len(records) |->
                           [g \in index |->
                              IF g \in DOMAIN records[k][2]
                              THEN records[k][2][g] ELSE NaN]]]

NoWideFrame == [columns |-> <<>>, index_names |-> <<>>, index |-> {}, cell |-> <<>>]

\* df.reset_index().rename(columns={"level_0": "gene_id", "level_1": "gene_name"}):
\* a new frame with the index levels as its first columns.
ResetIndexRenamed(df) ==
    LET level(n) == IF n = 1 THEN "gene_id" ELSE "gene_name"
        nlev == Len(df.index_names)
        keys == IF nlev = 0 THEN <<>> ELSE [n \in 1..nlev |-> level(n)]
    IN [columns     |-> (IF nlev = 0 THEN <<"index">> ELSE keys) \o df.columns,
        index_names |-> <<>>,
        index       |-> df.index,
        cell        |-> (IF nlev = 0 THEN <<[g \in df.index |-> g]>>
                         ELSE [n \in 1..nlev |-> [g \in df.index |-> g[n]]])
                        \o df.cell]

\* pd.read_csv of the sample sheet, the loop, pd.DataFrame(records), then
\* tcga_df.reset_index().rename(..., inplace=True): reset_index() builds a copy
\* and rename changes that copy in place, so the result holds the frame
\* returned (df) and the copy no name is bound to (unbound).
format_tcga_rnaseq(sheet, files, root_dir, wf) ==
    LET start == [kind |-> "ok", what |-> {}, records |-> <<>>, reads |-> <<>>]
        acc == Iterrows(files, wf, root_dir,
                        gdc_sample_sheet_rnaseq(sheet.rows), start)
        df == DataFrameOfRecords(acc.records)
    IN IF ~sheet.exists
       THEN [kind |-> "FileNotFoundError", what |-> {"gdc_sample_sheet"},
             df |-> NoWideFrame, unbound |-> NoWideFrame, reads |-> <<>>]
       ELSE IF acc.kind # "ok"
       THEN [kind |-> acc.kind, what |-> acc.what, df |-> NoWideFrame,
             unbound |-> NoWideFrame, reads |-> acc.reads]
       ELSE [kind |-> "ok", what |-> {}, df |-> df,
             unbound |-> ResetIndexRenamed(df), reads |-> acc.reads]


\* ---------------------------------------------------- load_transcriptomics
StartsWith(s, prefix) ==
    /\ Len(s) >= Len(prefix)
    /\ SubSeq(s, 1, Len(prefix)) = prefix

\* 'gdc_download_'
DownloadPrefix ==
    <<"g", "d", "c", "_", "d", "o", "w", "n", "l", "o", "a", "d", "_">>

\* 'gdc_download_20230711_113556.889465'
RootDirName ==
    <<"g", "d", "c", "_", "d", "o", "w", "n", "l", "o", "a", "d", "_",
      "2", "0", "2", "3", "0", "7", "1", "1", "_", "1", "1", "3", "5",
      "5", "6", ".", "8", "8", "9", "4", "6", "5">>

\* 'gdc_sample_sheet.2023-07-11.tsv'
SheetName ==
    <<"g", "d", "c", "_", "s", "a", "m", "p", "l", "e", "_", "s", "h",
      "e", "e", "t", ".", "2", "0", "2", "3", "-", "0", "7", "-", "1",
      "1", ".", "t", "s", "v">>

\* 'gdc_manifest.txt'
ManifestName ==
    <<"g", "d", "c", "_", "m", "a", "n", "i", "f", "e", "s", "t", ".",
      "t", "x", "t">>

\* 'gdc_download_20230711_113556.889465.tar.gz'
DownloadedName ==
    <<"g", "d", "c", "_", "d", "o", "w", "n", "l", "o", "a", "d", "_",
      "2", "0", "2", "3", "0", "7", "1", "1", "_", "1", "1", "3", "5",
      "5", "6", ".", "8", "8", "9", "4", "6", "5", ".", "t", "a", "r",
      ".", "g", "z">>

\* '-11R-A29S-07'
AliquotSuffix ==
    <<"-", "1", "1", "R", "-", "A", "2", "9", "S", "-", "0", "7">>

\* rename(columns = lambda x: x[:-12])
StripAliquot(x) == SubSeq(x, 1, Len(x) - 12)

\* tcga_gex[[col for col in tcga_gex.columns if col in sample_metadata.index]]
SelectSamples(gex_columns, metadata_index) ==
    SelectSeq([k \in 1..Len(gex_columns) |-> StripAliquot(gex_columns[k])],
              LAMBDA col : col \in metadata_index)

\* not [str(f).startswith('gdc_download_') for f in listdir(getcwd())]: the
\* truth value of the list of flags, which is false for every non-empty list.
NotDownloadFlags(entries) ==
    LET flags == [k \in 1..Len(entries) |-> StartsWith(entries[k], DownloadPrefix)]
    IN flags = <<>>

\* What the directory holds when format_tcga_rnaseq runs from it: the sample
\* sheet and the files under the root directory are there only if the
\* directory lists them.
SheetIn(entries, sheet) ==
    IF \E k \in 1..Len(entries) : entries[k] = SheetName
    THEN sheet ELSE [exists |-> FALSE, rows |-> <<>>]

FilesIn(entries, files) ==
    IF \E k \in 1..Len(entries) : entries[k] = RootDirName
    THEN files ELSE [p \in DOMAIN files |-> Missing]

NoLoad == [kind |-> "none", what |-> {}, columns |-> <<>>, df |-> NoWideFrame,
           events |-> <<>>, cwd |-> <<>>]

\* load_transcriptomics(sample_metadata, source, gdc_manifest_path) run in a
\* directory listing entries; pancan is the PANCAN expression file, download
\* the outcome of _download_tcga_data_files, sheet and files what the sample
\* sheet and the root directory hold.  events are the calls made, in order.
load_transcriptomics(metadata_index, src, entries, pancan, download, sheet, files) ==
    IF src = "gdc"
    THEN IF ~pancan.exists
         THEN [NoLoad EXCEPT !.kind = "FileNotFoundError", !.what = {"pancan"},
                             !.events = <<"read_csv">>, !.cwd = entries]
         ELSE [NoLoad EXCEPT !.kind = "ok",
                             !.columns = SelectSamples(pancan.columns, metadata_index),
                             !.events = <<"read_csv", "select">>, !.cwd = entries]
    ELSE IF src = "api"
    THEN LET called == NotDownloadFlags(entries)
             before == <<"listdir">> \o
                       (IF called THEN <<"_download_tcga_data_files">> ELSE <<>>)
             after == IF called /\ download = "written"
                      THEN Append(entries, DownloadedName) ELSE entries
             got == format_tcga_rnaseq(SheetIn(after, sheet), FilesIn(after, files),
                                       "gdc_download_20230711_113556.889465",
                                       "tpm_unstranded")
         IN IF called /\ download # "written"
            THEN [NoLoad EXCEPT !.kind = download, !.events = before, !.cwd = after]
            ELSE [kind |-> got.kind, what |-> got.what, columns |-> got.df.columns,
                  df |-> got.df, events |-> Append(before, "format_tcga_rnaseq"),
                  cwd |-> after]
    ELSE [NoLoad EXCEPT !.kind = "UnboundLocalError", !.what = {"tcga_df"},
                        !.cwd = entries]

\* ------------------------------------------------ inputs of the pair filter
\* A sample's classification and its tumor/normal flag, as TCGA annotates them.
SampleKinds ==
    {<<"Primary Tumor", "Tumor">>, <<"Solid Tissue Normal", "Normal">>,
     <<"Primary Blood Derived Cancer - Peripheral Blood", "Tumor">>,
     <<"Metastatic", "Tumor">>}
SampleIds == {<<"T">> \o Str01A, <<"T">> \o Str01B, <<"T">> \o Str01C}
Subjects == {"S1", "S2"}

RowUniverse ==
    {[land_sample_type |-> k[1], sample_id |-> sid, subject_id |-> sub,
      gene_name |-> "TP53", tpm |-> "7.5", tumor_or_normal |-> k[2],
      tumor_type |-> "BRCA"] :
        k \in SampleKinds, sid \in SampleIds, sub \in Subjects}

Frames(cols, n) ==
    {[columns |-> cols,
      index   |-> [k \in 1..n |-> k - 1],
      rows    |-> [k \in 1..n |-> [c \in cols |-> rs[k][c]]]] :
        rs \in [1..n -> RowUniverse]}

\* df.loc[labels]: the rows of df whose label is in labels.
Loc(df, labels) ==
    BoolIndex(df, {i \in 1..Len(df.rows) : df.index[i] \in labels})

Labels(df) == {df.index[k] : k \in 1..Len(df.index)}

\* -------------------- inputs of format_tcga_rnaseq and load_transcriptomics
\* File IDs are the keys of a sample sheet: a sheet lists a file once.  Files
\* being interchangeable, a sheet lists them in the order of FileIdList.
FileIdList == <<"f1", "f2", "f3", "f4", "f5">>
SheetSampleIds == {"SA", "SB"}
DataCategories == {"Transcriptome Profiling", "Clinical"}
Workflows == {"unstranded", "tpm_unstranded"}

SheetRow(f, sid, cat) ==
    ("File ID" :> f) @@ ("File Name" :> "quant.tsv") @@ ("Sample ID" :> sid)
      @@ ("Data Category" :> cat)

NoSheet == [exists |-> FALSE, rows |-> <<>>]

\* The sample sheets over the first n files, and the unreadable one.
Sheets(n) ==
    {NoSheet} \cup
    UNION {{[exists |-> TRUE,
             rows |-> [k \in 1..Cardinality(F) |->
                         SheetRow(FileIdList[Ascending(F)[k]], a[k][1], a[k][2])]] :
              a \in [1..Cardinality(F) -> SheetSampleIds \X DataCategories]} :
             F \in SUBSET (1..n)}

QuantRow(gene_id, gene_name, unstranded, tpm_unstranded) ==
    [gene_id |-> gene_id, gene_name |-> gene_name, unstranded |-> unstranded,
     tpm_unstranded |-> tpm_unstranded]

QuantColumns == {"gene_id", "gene_name", "unstranded", "tpm_unstranded"}

File(columns, rows) ==
    [exists |-> TRUE,
     df |-> [columns |-> columns, index |-> [k \in 1..Len(rows) |-> k - 1],
             rows |-> rows]]

\* Two genes, every value present.
QuantFile(count, tpm) ==
    File(QuantColumns, <<QuantRow("ENSG1", "TP53", count, tpm),
                         QuantRow("ENSG2", "BRCA1", count, tpm)>>)

\* The N_unmapped summary row of a STAR counts file has no gene name or TPM.
SummaryRowFile ==
    File(QuantColumns, <<QuantRow("N_unmapped", NaN, "5", NaN),
                         QuantRow("ENSG1", "TP53", "30", "3.5")>>)

\* A counts file of a workflow without the TPM column.
NoTpmFile ==
    File(QuantColumns \ {"tpm_unstranded"},
         <<[gene_id |-> "ENSG1", gene_name |-> "TP53", unstranded |-> "40"],
           [gene_id |-> "ENSG2", gene_name |-> "BRCA1", unstranded |-> "40"]>>)

\* A file without the leading comment line: header=1 takes a data row as header.
BadHeaderFile ==
    File({"ENSG1", "TP53", "10"},
         <<("ENSG1" :> "ENSG2") @@ ("TP53" :> "BRCA1") @@ ("10" :> "10")>>)

FileKinds ==
    {Missing, QuantFile("10", "1.5"), SummaryRowFile, NoTpmFile, BadHeaderFile}

\* The root directory as a path component; RootDirName spells the same name.
RootDir == "gdc_download_20230711_113556.889465"

Paths(n) == {<<RootDir, FileIdList[i], "quant.tsv">> : i \in 1..n}

FileSystems(n) == [Paths(n) -> FileKinds]

Barcodes == <<<<"A", "1">> \o Str01A \o AliquotSuffix,
              <<"B", "2">> \o Str01A \o AliquotSuffix>>

Pancan == {[exists |-> FALSE, columns |-> <<>>],
           [exists |-> TRUE, columns |-> Barcodes]}

MetadataIndexes == SUBSET {<<"A", "1">> \o Str01A, <<"B", "2">> \o Str01A}

Sources == {"gdc", "api", "tcga"}

DownloadOutcomes == {"written", "FileNotFoundError", "KeyError"}

EntryNames == {RootDirName, SheetName, ManifestName}

\* The listings of a directory holding at most n of the entry names.
Listings(n) ==
    UNION {{l \in [1..m -> EntryNames] : \A i, j \in 1..m : l[i] = l[j] => i = j} :
             m \in 0..n}

\* ----------------------------------------------------------------- actions
NoFormat == [kind |-> "none", what |-> {}, df |-> NoWideFrame,
             unbound |-> NoWideFrame, reads |-> <<>>]

Init ==
    /\ pc = "idle"
    /\ tcga_tpm = NoFrame
    /\ paired = NotCalled
    /\ again = NotCalled
    /\ retained = NotCalled
    /\ gdc_sample_sheet = NoSheet
    /\ fs = <<>>
    /\ workflow_type = "unstranded"
    /\ tcga_df = NoFormat
    /\ source = "gdc"
    /\ listing = <<>>
    /\ loaded = NoLoad

CallPaired ==
    /\ pc = "idle"
    /\ \E n \in 0..MaxRows : \E df \in Frames(RequiredColumns, n) :
         /\ tcga_tpm' = df
         /\ paired' = get_paired_tcga_exprs(df)
    /\ pc' = "paired_done"
    /\ UNCHANGED <<again, retained, formatVars, loadVars>>

CallPairedMissingColumn ==
    /\ pc = "idle"
    /\ \E n \in 0..MaxRowsMissing :
       \E cols \in (SUBSET RequiredColumns) \ {RequiredColumns} :
       \E df \in Frames(cols, n) :
         /\ tcga_tpm' = df
         /\ paired' = get_paired_tcga_exprs(df)
    /\ pc' = "paired_done"
    /\ UNCHANGED <<again, retained, formatVars, loadVars>>

\* get_paired_tcga_exprs(get_paired_tcga_exprs(T))
ReapplyPaired ==
    /\ pc = "paired_done"
    /\ paired.kind = "ok"
    /\ again = NotCalled
    /\ again' = get_paired_tcga_exprs(paired.df)
    /\ UNCHANGED <<pc, tcga_tpm, paired, retained, formatVars, loadVars>>

\* get_paired_tcga_exprs(T.loc[get_paired_tcga_exprs(T).index])
RefilterRetained ==
    /\ pc = "paired_done"
    /\ paired.kind = "ok"
    /\ retained = NotCalled
    /\ retained' = get_paired_tcga_exprs(Loc(tcga_tpm, Labels(paired.df)))
    /\ UNCHANGED <<pc, tcga_tpm, paired, again, formatVars, loadVars>>

NextPaired ==
    \/ CallPaired
    \/ CallPairedMissingColumn
    \/ ReapplyPaired
    \/ RefilterRetained

SpecPaired == Init /\ [][NextPaired]_vars

CallFormat ==
    /\ pc = "idle"
    /\ \E sheet \in Sheets(MaxFiles) : \E files \in FileSystems(MaxFiles) :
       \E wf \in Workflows :
         /\ gdc_sample_sheet' = sheet
         /\ fs' = files
         /\ workflow_type' = wf
         /\ tcga_df' = format_tcga_rnaseq(sheet, files, RootDir, wf)
    /\ pc' = "format_done"
    /\ UNCHANGED <<pairedVars, loadVars>>

NextFormat == CallFormat

SpecFormat == Init /\ [][NextFormat]_vars

Lists(entries, name) == \E k \in 1..Len(entries) : entries[k] = name

CallLoadGdc ==
    /\ pc = "idle"
    /\ \E entries \in Listings(MaxEntries) : \E index \in MetadataIndexes :
       \E pancan \in Pancan :
         /\ source' = "gdc"
         /\ listing' = entries
         /\ loaded' = load_transcriptomics(index, "gdc", entries, pancan, "written",
                                           NoSheet, <<>>)
    /\ pc' = "load_done"
    /\ UNCHANGED <<pairedVars, formatVars>>

\* The sample sheet and the quantification files are drawn only where the
\* directory lists them.
CallLoadApi ==
    /\ pc = "idle"
    /\ \E entries \in Listings(MaxEntries) : \E download \in DownloadOutcomes :
       \E sheet \in (IF Lists(entries, SheetName) THEN Sheets(MaxFilesLoad)
                     ELSE {NoSheet}) :
       \E files \in (IF Lists(entries, RootDirName) THEN FileSystems(MaxFilesLoad)
                     ELSE {[p \in Paths(MaxFilesLoad) |-> Missing]}) :
         /\ source' = "api"
         /\ listing' = entries
         /\ gdc_sample_sheet' = sheet
         /\ fs' = files
         /\ loaded' = load_transcriptomics({}, "api", entries,
                                           [exists |-> FALSE, columns |-> <<>>],
                                           download, sheet, files)
    /\ pc' = "load_done"
    /\ UNCHANGED <<pairedVars, workflow_type, tcga_df>>

CallLoadOther ==
    /\ pc = "idle"
    /\ \E src \in Sources \ {"gdc", "api"} : \E entries \in Listings(MaxEntries) :
         /\ source' = src
         /\ listing' = entries
         /\ loaded' = load_transcriptomics({}, src, entries,
                                           [exists |-> FALSE, columns |-> <<>>],
                                           "written",
                                           NoSheet, <<>>)
    /\ pc' = "load_done"
    /\ UNCHANGED <<pairedVars, formatVars>>

NextLoad ==
    \/ CallLoadGdc
    \/ CallLoadApi
    \/ CallLoadOther

SpecLoad == Init /\ [][NextLoad]_vars

\* ============================================== claims: get_paired_tcga_exprs
PairedReturned == pc = "paired_done" /\ paired.kind = "ok"

InRows == tcga_tpm.rows
OutRows == paired.df.rows

\* The input row an output row was taken from: labels are input positions - 1.
SourceOf(k) == InRows[paired.df.index[k] + 1]

InputRowsOf(s, flag) ==
    {i \in 1..Len(InRows) :
        InRows[i]["subject_id"] = s /\ InRows[i]["tumor_or_normal"] = flag}

OutputHas(s, flag) ==
    \E k \in 1..Len(OutRows) :
        OutRows[k]["subject_id"] = s /\ OutRows[k]["tumor_or_normal"] = flag

EndsWith(s, suf) ==
    /\ Len(s) >= Len(suf)
    /\ SubSeq(s, Len(s) - Len(suf) + 1, Len(s)) = suf

SuffixedFfpe(sid) == EndsWith(sid, Str01B) \/ EndsWith(sid, Str01C)

ClaimAllowList ==
    {"Primary Tumor", "Solid Tissue Normal",
     "Primary Blood Derived Cancer - Peripheral Blood"}

Eligible(i) ==
    /\ InRows[i]["land_sample_type"] \in ClaimAllowList
    /\ ~Contains(InRows[i]["sample_id"], Str01B)
    /\ ~Contains(InRows[i]["sample_id"], Str01C)

Retained(i) == \E k \in 1..Len(OutRows) : paired.df.index[k] = i - 1

\* C1: every subject_id that occurs in the returned table has a returned row
\* flagged Tumor and a returned row flagged Normal, after drop_duplicates.
C1_OutputSubjectsPaired ==
    PairedReturned =>
        \A k \in 1..Len(OutRows) :
            /\ OutputHas(OutRows[k]["subject_id"], "Tumor")
            /\ OutputHas(OutRows[k]["subject_id"], "Normal")

\* C1 witness: three eligible rows of one subject, two of them equal after the
\* projection, so that drop_duplicates removed one and the pair remains.
C1_Witness ==
    /\ PairedReturned
    /\ Len(InRows) = 3
    /\ \A i \in 1..3 : Eligible(i)
    /\ Len(OutRows) = 2

\* C2 as stated: a subject with exactly one Tumor and exactly one Normal row
\* keeps both rows; a subject with only Tumor or only Normal rows keeps none.
C2_Original ==
    PairedReturned =>
        \A s \in Subjects :
            /\ (Cardinality(InputRowsOf(s, "Tumor")) = 1
                /\ Cardinality(InputRowsOf(s, "Normal")) = 1)
               => \A i \in InputRowsOf(s, "Tumor") \cup InputRowsOf(s, "Normal") :
                     Retained(i)
            /\ (InputRowsOf(s, "Tumor") = {} \/ InputRowsOf(s, "Normal") = {})
               => ~OutputHas(s, "Tumor") /\ ~OutputHas(s, "Normal")

\* C2 amended: a subject with exactly one Tumor and exactly one Normal row,
\* both of an allowed sample type and neither with -01B or -01C in its
\* sample_id, keeps both rows (projected to the five relevant columns); a
\* subject with only Tumor or only Normal rows keeps none.
C2_EligiblePairRetained ==
    PairedReturned =>
        \A s \in Subjects :
            /\ (/\ Cardinality(InputRowsOf(s, "Tumor")) = 1
                /\ Cardinality(InputRowsOf(s, "Normal")) = 1
                /\ \A i \in InputRowsOf(s, "Tumor") \cup InputRowsOf(s, "Normal") :
                      Eligible(i))
               => \A i \in InputRowsOf(s, "Tumor") \cup InputRowsOf(s, "Normal") :
                     \E k \in 1..Len(OutRows) :
                        /\ paired.df.index[k] = i - 1
                        /\ OutRows[k] = [c \in RelevantColumns |-> InRows[i][c]]
            /\ (InputRowsOf(s, "Tumor") = {} \/ InputRowsOf(s, "Normal") = {})
               => ~OutputHas(s, "Tumor") /\ ~OutputHas(s, "Normal")

\* C2 witness: S1 has one eligible Tumor and one eligible Normal row, S2 has
\* only a Tumor row; exactly S1's two rows are returned.
C2_Witness ==
    /\ PairedReturned
    /\ Len(InRows) = 3
    /\ Cardinality(InputRowsOf("S1", "Tumor")) = 1
    /\ Cardinality(InputRowsOf("S1", "Normal")) = 1
    /\ Cardinality(InputRowsOf("S2", "Tumor")) = 1
    /\ \A i \in 1..3 : Eligible(i)
    /\ Len(OutRows) = 2
    /\ \A k \in 1..2 : OutRows[k]["subject_id"] = "S1"

\* C3: no row whose sample_id ends in -01B or -01C is returned: every returned
\* row is the projection of an input row without such a suffix, and every
\* returned subject has an unsuffixed Tumor row and an unsuffixed Normal row
\* among the returned rows, so no suffixed row made it count as paired.
C3_NoFfpeSuffixInOutput ==
    PairedReturned =>
        /\ \A k \in 1..Len(OutRows) :
              /\ ~SuffixedFfpe(SourceOf(k)["sample_id"])
              /\ OutRows[k] = [c \in RelevantColumns |-> SourceOf(k)[c]]
        /\ \A k \in 1..Len(OutRows) : \A flag \in {"Tumor", "Normal"} :
              \E i \in InputRowsOf(OutRows[k]["subject_id"], flag) :
                 ~SuffixedFfpe(InRows[i]["sample_id"]) /\ Retained(i)

\* C3 witness: a subject with a returned pair also has a -01C row of an
\* allowed type, which is not returned.
C3_Witness ==
    /\ PairedReturned
    /\ Len(OutRows) = 2
    /\ \E i \in 1..Len(InRows) :
          /\ EndsWith(InRows[i]["sample_id"], Str01C)
          /\ InRows[i]["land_sample_type"] \in ClaimAllowList
          /\ InRows[i]["subject_id"] = OutRows[1]["subject_id"]
          /\ ~Retained(i)

\* C4: no row whose sample type is outside the allow-list is returned, and
\* such rows do not count toward pairing: every returned subject has a Tumor
\* row and a Normal row of an allowed type among the returned rows.
C4_OnlyAllowedTypesInOutput ==
    PairedReturned =>
        /\ \A k \in 1..Len(OutRows) :
              SourceOf(k)["land_sample_type"] \in ClaimAllowList
        /\ \A k \in 1..Len(OutRows) : \A flag \in {"Tumor", "Normal"} :
              \E i \in InputRowsOf(OutRows[k]["subject_id"], flag) :
                 InRows[i]["land_sample_type"] \in ClaimAllowList /\ Retained(i)

\* C4 witness: a subject with a returned pair also has a Metastatic row with an
\* unsuffixed sample_id, which is not returned.
C4_Witness ==
    /\ PairedReturned
    /\ Len(OutRows) = 2
    /\ \E i \in 1..Len(InRows) :
          /\ InRows[i]["land_sample_type"] = "Metastatic"
          /\ ~FfpePattern(InRows[i]["sample_id"])
          /\ InRows[i]["subject_id"] = OutRows[1]["subject_id"]
          /\ ~Retained(i)

FormatReturned ==
    pc = "format_done" /\ gdc_sample_sheet.exists /\ tcga_df.kind = "ok"

\* The 'Transcriptome Profiling' rows of the sheet, and the file of the k-th.
ProfilingRows ==
    SelectSeq(gdc_sample_sheet.rows,
              LAMBDA row : row["Data Category"] = "Transcriptome Profiling")

PathOf(k) ==
    <<RootDir, ProfilingRows[k]["File ID"], ProfilingRows[k]["File Name"]>>

FileOf(k) == fs[PathOf(k)]

\* The gene index of a readable file: the keys of its rows without a missing value.
GeneIndexOf(k) ==
    {<<FileOf(k).df.rows[i]["gene_id"], FileOf(k).df.rows[i]["gene_name"]>> :
        i \in {j \in 1..Len(FileOf(k).df.rows) :
                 \A c \in FileOf(k).df.columns : FileOf(k).df.rows[j][c] # NaN}}

Offending(k) ==
    ~FileOf(k).exists \/ workflow_type \notin FileOf(k).df.columns

\* C7 as stated: N profiling rows whose files share one gene index give exactly
\* N sample columns, each the column of exactly one file, and as many rows as
\* the shared gene index has keys, whether or not a Sample ID repeats.
C7_Original ==
    (/\ FormatReturned
     /\ Len(ProfilingRows) >= 1
     /\ \A k \in 1..Len(ProfilingRows) : GeneIndexOf(k) = GeneIndexOf(1))
    => /\ Len(tcga_df.df.columns) = Len(ProfilingRows)
       /\ Cardinality(tcga_df.df.index) = Cardinality(GeneIndexOf(1))
       /\ \A c \in 1..Len(tcga_df.df.columns) :
             Cardinality({k \in 1..Len(ProfilingRows) :
                            ProfilingRows[k]["Sample ID"] = tcga_df.df.columns[c]}) = 1

\* C8 as stated: the returned table has the gene key as its first two columns,
\* named gene_id and gene_name, followed by one column per sample, and the
\* gene key is no longer the row index.
C8_Original ==
    (FormatReturned /\ Len(ProfilingRows) >= 1)
    => /\ tcga_df.df.index_names = <<>>
       /\ Len(tcga_df.df.columns) >= 2
       /\ tcga_df.df.columns[1] = "gene_id"
       /\ tcga_df.df.columns[2] = "gene_name"

\* C9: if the file of a profiling row is missing or lacks the workflow column,
\* the call ends with an error raised at the first such file: no table is
\* returned and the files read are exactly those up to that one; otherwise the
\* call returns a table in which every profiling row's sample is a column.
C9_AbortAtFirstBadFile ==
    (pc = "format_done" /\ gdc_sample_sheet.exists) =>
        LET bad == {k \in 1..Len(ProfilingRows) : Offending(k)}
        IN IF bad # {}
           THEN LET b == CHOOSE k \in bad : \A j \in bad : k <= j
                IN /\ tcga_df.kind =
                        (IF FileOf(b).exists THEN "KeyError" ELSE "FileNotFoundError")
                   /\ tcga_df.df = NoWideFrame
                   /\ tcga_df.unbound = NoWideFrame
                   /\ tcga_df.reads = [k \in 1..b |-> PathOf(k)]
           ELSE /\ tcga_df.kind = "ok"
                /\ tcga_df.reads = [k \in 1..Len(ProfilingRows) |-> PathOf(k)]
                /\ \A k \in 1..Len(ProfilingRows) :
                      \E c \in 1..Len(tcga_df.df.columns) :
                         tcga_df.df.columns[c] = ProfilingRows[k]["Sample ID"]

\* C9 witness: three profiling rows, the file of the second missing and those
\* of the first and third readable; the call failed having read two paths.
C9_Witness ==
    /\ pc = "format_done"
    /\ gdc_sample_sheet.exists
    /\ Len(ProfilingRows) = 3
    /\ ~Offending(1)
    /\ ~FileOf(2).exists
    /\ ~Offending(3)
    /\ tcga_df.kind = "FileNotFoundError"
    /\ Len(tcga_df.reads) = 2

\* =============================================== claims: load_transcriptomics
Called(name) == \E k \in 1..Len(loaded.events) : loaded.events[k] = name

\* C10 as stated: with source 'api' the download is called exactly when no
\* entry of the directory starts with gdc_download_; with source 'gdc' it is
\* never called; format or selection is the last call made, after the decision.
C10_Original ==
    pc = "load_done" =>
        /\ source = "api" =>
              (Called("_download_tcga_data_files")
                 <=> ~\E k \in 1..Len(listing) : StartsWith(listing[k], DownloadPrefix))
        /\ source = "gdc" => ~Called("_download_tcga_data_files")
        /\ \A k \in 1..Len(loaded.events) :
              loaded.events[k] \in {"format_tcga_rnaseq", "select"}
                 => k = Len(loaded.events) /\ k > 1

====
